---- MODULE Spec2Model ----
(***************************************************************************)
(* Fastidious MCP server: the HTTP session/transport manager               *)
(* (http-server.ts: POST /sse, GET /sse, POST /message), the stdio entry   *)
(* (index.ts) and the remote API client / dispatcher of tools.ts, as far   *)
(* as sessions and credentials are concerned.                              *)
(*                                                                         *)
(* Every async handler is cut at its awaits: the code up to an await is    *)
(* one step, the continuation another, and other requests and connection   *)
(* events interleave between them (single-threaded event loop).            *)
(***************************************************************************)
EXTENDS Integers, Sequences, FiniteSets, TLC

\* ------------------------------------------------------------------ bounds
\* Engines (each with its transport) one behaviour constructs, per
\* specification.
MaxEngines       == 2     \* Spec: every route, the stdio entry and tool calls
GateEngines      == 2     \* SpecGate: every route, with every kind of token
StreamingEngines == 2     \* SpecStreaming: POST /sse and transport close
LegacyEngines    == 2     \* SpecLegacy: GET /sse, POST /message and stream close
WideEngines      == 3     \* SpecLegacyWide: the same, with three legacy streams
ToolEngines      == 1     \* SpecTools: the stdio engine
MaxPastes        == 2     \* items in a remote list
SuspendEngines   == 2     \* SpecSuspend: both HTTP styles, tool calls cut at their await
MaxOutstanding   == 1     \* SpecSuspend: tool calls one session has in flight

\* ------------------------------------------------------------- input sets
None == "none"

\* Session identifiers the two generators can return.  Both generators draw
\* from random sources, so a value already in use can come back.
Ids == {"a", "b"}

\* Query parameter `token`: present or absent, and its characters.
Tok(s) == [present |-> TRUE, v |-> s]

AbsentToken == [present |-> FALSE, v |-> <<>>]

TokenA == <<"f", "s", "t", "_", "a">>

TokenB == <<"f", "s", "t", "_", "b">>

TokenInputs ==
  { AbsentToken, Tok(<<>>), Tok(<<"x", "f", "s", "t", "_">>), Tok(TokenA), Tok(TokenB) }

\* The tokens that pass the gate.
ValidTokenInputs == { Tok(TokenA), Tok(TokenB) }

\* The tokens that pass the gate, and no token.
SomeTokenInputs == { AbsentToken, Tok(TokenA), Tok(TokenB) }

\* FASTIDIOUS_TOKEN of the stdio entry.
EnvInputs == { AbsentToken, Tok(<<>>), Tok(TokenA), Tok(TokenB) }

\* Query parameter `token` of a POST /message request (never read).
MessageTokenInputs == { AbsentToken, Tok(TokenA) }

\* mcp-session-id header of a POST /sse request (None: header absent).
SidInputs == Ids \cup {None}

\* ---------------------------------------------------------------- helpers
\* String.prototype.startsWith
StartsWith(s, prefix) ==
  /\ Len(s) >= Len(prefix)
  /\ SubSeq(s, 1, Len(prefix)) = prefix

Prefix == <<"f", "s", "t", "_">>

TokenOk_NoPrefixCheck(tok) == tok.present /\ tok.v # <<>>

\* if (!token || !token.startsWith('fst_')) return 401
TokenOk(tok) == tok.present /\ tok.v # <<>> /\ StartsWith(tok.v, Prefix)

\* A JavaScript Map, in insertion order: a sequence of [key, value] pairs.
MapKeys(m) == { m[i].key : i \in 1..Len(m) }

MapHas(m, k) == k \in MapKeys(m)

MapIndex(m, k) == CHOOSE i \in 1..Len(m) : m[i].key = k

MapGet(m, k) == m[MapIndex(m, k)].value

\* Map.prototype.set: a new key is appended, an existing key keeps its place
\* and takes the new value.
MapSet(m, k, v) ==
  IF MapHas(m, k)
    THEN [m EXCEPT ![MapIndex(m, k)] = [key |-> k, value |-> v]]
    ELSE Append(m, [key |-> k, value |-> v])

\* Map.prototype.delete
MapDelete(m, k) == SelectSeq(m, LAMBDA e : e.key # k)

\* ---------------------------------------------------------- remote client
BearerWord == <<"B", "e", "a", "r", "e", "r", " ">>

Bearer(token) == BearerWord \o token

NoHeaders == [h \in {} |-> <<>>]

\* { 'Authorization': `Bearer ${config.token}`, ...options.headers }: a
\* header of the same name in options.headers replaces the default.
Spread(base, over) ==
  [h \in DOMAIN base \cup DOMAIN over |-> IF h \in DOMAIN over THEN over[h] ELSE base[h]]

ContentTypeJson == <<"application/json">>

\* fetchAPI(config, path, options): the outbound request it hands to fetch.
\* options.body is NoBody, or the JSON text of an object (JsonBody).
fetchAPI(config, path, options) ==
  LET headers == Spread([Authorization |-> Bearer(config.token)], options.headers) IN
  [ path    |-> path,
    method  |-> options.method,
    body    |-> options.body,
    headers |-> IF options.body.present
                  THEN [h \in DOMAIN headers \cup {"Content-Type"} |->
                          IF h = "Content-Type" THEN ContentTypeJson ELSE headers[h]]
                  ELSE headers ]

\* Argument values are JSON values, written as text ("true" and "false" are
\* the booleans).  An argument the caller did not supply reads as undefined.
Undefined == "undefined"

Null == "null"

NoBody == [present |-> FALSE, json |-> [k \in {} |-> ""]]

\* JSON.stringify(obj) of an object: the keys whose value is undefined are
\* left out, null stays.
JsonStringify(obj) == [k \in {k \in DOMAIN obj : obj[k] # Undefined} |-> obj[k]]

JsonBody(obj) == [present |-> TRUE, json |-> JsonStringify(obj)]

Arg(args, k) == IF k \in DOMAIN args THEN args[k] ELSE Undefined

\* if (v), v || d: undefined, null, false and the empty string are falsy.
Truthy(v) == v \notin {Undefined, Null, "false", ""}

IncludeChildren_Always(args) == TRUE

\* if (!includeChildren)
IncludeChildren(args) == Truthy(Arg(args, "includeChildren"))

NoQuery == [k \in {} |-> ""]

\* A request path: its segments, and the query parameters after '?'.
Path(segments, query) == [segments |-> segments, query |-> query]

\* const params = new URLSearchParams(); if (parentId) params.set('parentId', parentId)
ParentQuery(args) ==
  IF Truthy(Arg(args, "parentId")) THEN [parentId |-> args.parentId] ELSE NoQuery

\* new URLSearchParams({ q: query }); if (parentId) params.set('parentId', parentId)
SearchQuery(args) ==
  IF Truthy(Arg(args, "parentId"))
    THEN [q |-> Arg(args, "query"), parentId |-> args.parentId]
    ELSE [q |-> Arg(args, "query")]

\* The cases of handleToolCall's switch: the method and body of the first
\* request (GET: no method is passed, fetch's default) and the operation its
\* failure message names.
ToolRoute ==
  [ create_note       |-> [method |-> "POST",   body |-> TRUE,  label |-> "Failed to create note"],
    get_note          |-> [method |-> "GET",    body |-> FALSE, label |-> "Failed to get note"],
    update_note       |-> [method |-> "PUT",    body |-> TRUE,  label |-> "Failed to update note"],
    delete_note       |-> [method |-> "DELETE", body |-> FALSE, label |-> "Failed to delete note"],
    list_notes        |-> [method |-> "GET",    body |-> FALSE, label |-> "Failed to list notes"],
    search_notes      |-> [method |-> "GET",    body |-> FALSE, label |-> "Failed to search notes"],
    create_collection |-> [method |-> "POST",   body |-> TRUE,  label |-> "Failed to create collection"],
    update_collection |-> [method |-> "PUT",    body |-> TRUE,  label |-> "Failed to update collection"],
    get_collection    |-> [method |-> "GET",    body |-> FALSE, label |-> "Failed to get collection"],
    list_collections  |-> [method |-> "GET",    body |-> FALSE, label |-> "Failed to list collections"],
    move_note         |-> [method |-> "POST",   body |-> TRUE,  label |-> "Failed to move note"] ]

ToolNames == DOMAIN ToolRoute

\* The path of the first request of each case.
ToolPath(toolName, args) ==
  CASE toolName \in {"create_note", "create_collection"} ->
         Path(<<"/api/pastes">>, NoQuery)
    [] toolName \in {"get_note", "update_note", "delete_note", "update_collection",
                     "get_collection"} ->
         Path(<<"/api/pastes/", Arg(args, "id")>>, NoQuery)
    [] toolName \in {"list_notes", "list_collections"} ->
         Path(<<"/api/pastes">>, ParentQuery(args))
    [] toolName = "search_notes" ->
         Path(<<"/api/pastes">>, SearchQuery(args))
    [] toolName = "move_note" ->
         Path(<<"/api/pastes/", Arg(args, "id"), "/move">>, NoQuery)

\* const { id, ...updates } = args
Rest(args, taken) == [k \in DOMAIN args \ taken |-> args[k]]

OrElse_Always(v, d) == d

\* v || d
OrElse(v, d) == IF Truthy(v) THEN v ELSE d

\* displayFields || ['title', 'type', 'createdAt']
DefaultDisplayFields == "[title,type,createdAt]"

ToolBody_ViewFromArgs(toolName, args) ==
  [ type |-> "collection", title |-> Arg(args, "title"),
    parentId |-> Arg(args, "parentId"), fieldDefinitions |-> Arg(args, "fieldDefinitions"),
    displayFields |-> OrElse(Arg(args, "displayFields"), DefaultDisplayFields),
    viewMode |-> OrElse(Arg(args, "viewMode"), "grid"),
    sortField |-> OrElse(Arg(args, "sortField"), "createdAt"),
    sortDirection |-> OrElse(Arg(args, "sortDirection"), "desc") ]

\* The object each case passes to JSON.stringify as the body of its request.
ToolBody(toolName, args) ==
  CASE toolName = "create_note" ->
         [ type |-> "text", title |-> Arg(args, "title"), content |-> Arg(args, "content"),
           parentId |-> Arg(args, "parentId"), fields |-> Arg(args, "fields") ]
    [] toolName \in {"update_note", "update_collection"} ->
         Rest(args, {"id"})
    [] toolName = "create_collection" ->
         [ type |-> "collection", title |-> Arg(args, "title"),
           parentId |-> Arg(args, "parentId"),
           fieldDefinitions |-> Arg(args, "fieldDefinitions"),
           displayFields |-> OrElse(Arg(args, "displayFields"), DefaultDisplayFields),
           viewMode |-> "grid", sortField |-> "createdAt", sortDirection |-> "desc" ]
    [] toolName = "move_note" ->
         [ targetParentId |-> OrElse(Arg(args, "targetParentId"), Null) ]

\* `/api/pastes?parentId=${id}`, the second request of get_collection
ChildrenPath(args) == Path(<<"/api/pastes">>, [parentId |-> Arg(args, "id")])

\* The catalog: the names of TOOLS.
TOOLS ==
  { "create_note", "get_note", "update_note", "delete_note", "list_notes", "search_notes",
    "create_collection", "update_collection", "get_collection", "list_collections",
    "move_note" }

\* inputSchema of each entry of TOOLS: the arguments it declares and those it
\* marks required.  No schema forbids additional properties.
InputSchema ==
  [ create_note       |-> [ properties |-> {"title", "content", "parentId", "fields"},
                            required   |-> {"title", "content"} ],
    get_note          |-> [ properties |-> {"id"}, required |-> {"id"} ],
    update_note       |-> [ properties |-> {"id", "title", "content", "fields"},
                            required   |-> {"id"} ],
    delete_note       |-> [ properties |-> {"id"}, required |-> {"id"} ],
    list_notes        |-> [ properties |-> {"parentId"}, required |-> {} ],
    search_notes      |-> [ properties |-> {"query", "parentId"}, required |-> {"query"} ],
    create_collection |-> [ properties |-> {"title", "parentId", "fieldDefinitions",
                                            "displayFields"},
                            required   |-> {"title"} ],
    update_collection |-> [ properties |-> {"id", "title", "fieldDefinitions", "displayFields",
                                            "viewMode", "sortField", "sortDirection"},
                            required   |-> {"id"} ],
    get_collection    |-> [ properties |-> {"id", "includeChildren"}, required |-> {"id"} ],
    list_collections  |-> [ properties |-> {"parentId"}, required |-> {} ],
    move_note         |-> [ properties |-> {"id", "targetParentId"}, required |-> {"id"} ] ]

\* Tool names a session's caller sends: one of the catalog and one that is not.
ToolInputs == {"get_note", "no_such_tool"}

\* Tool arguments carry whatever the caller puts in them, a `token` included.
ArgTokenInputs == {TokenA, TokenB}

\* What handleToolCall does: the value it returns or the error it throws
\* (error: None, or the kind of the error; message: the parts of its text),
\* and the requests it issued.
NoValue == [undefined |-> TRUE]

Return(value, calls) ==
  [error |-> None, message |-> << >>, calls |-> calls, value |-> value]

Throw(error, message, calls) ==
  [error |-> error, message |-> message, calls |-> calls, value |-> NoValue]

Fail_DropsStatusText(label, response, calls) == Throw("Error", <<label>>, calls)

\* if (!response.ok) throw new Error(`Failed to ...: ${response.statusText}`)
Fail(label, response, calls) == Throw("Error", <<label, response.statusText>>, calls)

UnknownTool_PlainError(toolName) == Throw("Error", <<"Unknown tool", toolName>>, << >>)

\* default: throw new McpError(ErrorCode.MethodNotFound, `Unknown tool: ${toolName}`)
UnknownTool(toolName) == Throw("MethodNotFound", <<"Unknown tool", toolName>>, << >>)

IsCollection(p) == p.type = "collection"

FilterNotes_KeepAll(pastes) == pastes

\* data.pastes.filter(p => p.type !== 'collection')
FilterNotes(pastes) == SelectSeq(pastes, LAMBDA p : ~IsCollection(p))

FilterCollections_KeepAll(pastes) == pastes

\* data.pastes.filter(p => p.type === 'collection')
FilterCollections(pastes) == SelectSeq(pastes, IsCollection)

\* data.pastes is an array (else data.pastes.filter throws a TypeError)
HasPastes(data) == "pastes" \in DOMAIN data

NotAFunction == <<"data.pastes.filter is not a function">>

handleToolCall_TokenFromArgs(config, toolName, args, remote) ==
  Return(remote[1].body,
         << fetchAPI([config EXCEPT !.token = IF "token" \in DOMAIN args THEN args.token
                                               ELSE config.token],
                     ToolPath("get_note", args),
                     [method |-> "GET", body |-> NoBody, headers |-> NoHeaders]) >>)

\* handleToolCall.  remote[i] is the response the i-th fetch resolves to.  No
\* case passes headers to fetchAPI and no case reads a token from args.
handleToolCall(config, toolName, args, remote) ==
  IF toolName \notin ToolNames
    THEN UnknownTool(toolName)
    ELSE
      LET r        == ToolRoute[toolName]
          first    == fetchAPI(config, ToolPath(toolName, args),
                               [ method  |-> r.method,
                                 body    |-> IF r.body THEN JsonBody(ToolBody(toolName, args))
                                             ELSE NoBody,
                                 headers |-> NoHeaders ])
          response == remote[1]
          data     == response.body
      IN
      IF ~response.ok
        THEN Fail(r.label, response, <<first>>)
        ELSE
          CASE toolName = "delete_note" ->
                 Return([success |-> TRUE, id |-> Arg(args, "id")], <<first>>)
            [] toolName \in {"list_notes", "search_notes"} ->
                 IF HasPastes(data)
                   THEN Return([notes |-> FilterNotes(data.pastes)], <<first>>)
                   ELSE Throw("TypeError", NotAFunction, <<first>>)
            [] toolName = "list_collections" ->
                 IF HasPastes(data)
                   THEN Return([collections |-> FilterCollections(data.pastes)], <<first>>)
                   ELSE Throw("TypeError", NotAFunction, <<first>>)
            [] toolName = "get_collection" ->
                 IF ~IncludeChildren(args)
                   THEN Return([collection |-> data], <<first>>)
                   ELSE
                     LET second == fetchAPI(config, ChildrenPath(args),
                                     [method |-> "GET", body |-> NoBody, headers |-> NoHeaders])
                         childrenResponse == remote[2]
                         childrenData     == childrenResponse.body
                     IN
                     IF ~childrenResponse.ok
                       THEN Fail("Failed to get collection children", childrenResponse,
                                 <<first, second>>)
                       ELSE IF HasPastes(childrenData)
                         THEN Return([collection |-> data, children |-> childrenData.pastes],
                                     <<first, second>>)
                         ELSE Return([collection |-> data], <<first, second>>)
            [] OTHER -> Return(data, <<first>>)

\* -------------------------------------------------------------------- state
VARIABLES
  engines,               \* every engine constructed, with its transport
  streamableTransports,  \* Map sessionId -> {transport, token}
  sseTransports,         \* Map sessionId -> transport (legacy)
  pending,               \* handlers suspended at an await
  stdio,                 \* the stdio entry: "boot", "connecting", "running", "exited"
  regBy,                 \* history: the transport stored under each streaming id (0: none)
  limit,                 \* engines this behaviour may construct (a bound of the model)
  plan,                  \* SpecTools: the tools/call request to come and the remote's answers
  last                   \* the step just taken, as seen from outside

vars == <<engines, streamableTransports, sseTransports, pending, stdio, regBy, limit, plan, last>>

BaseUrl == "http://localhost:3000"

AuthError == "Valid token required as query parameter"

NoArgs == [k \in {} |-> ""]

\* What one step shows: the request received and the response written (status
\* 0: none written by the handler), the transport a request body was handed
\* to, the engine constructed, the remote requests issued.
Ev(ep) ==
  [ ep        |-> ep,
    tok       |-> AbsentToken,
    sid       |-> None,
    status    |-> 0,
    error     |-> None,
    to        |-> 0,
    created   |-> 0,
    prev      |-> 0,
    threw     |-> FALSE,     \* the awaited transport call threw
    headersSent |-> FALSE,   \* res.headersSent when the catch block ran
    unhandled |-> FALSE,     \* an error left the handler
    engine    |-> 0,
    argToken  |-> << >>,     \* the `token` argument of a tool call
    calls     |-> << >>,     \* the remote requests issued
    tool      |-> None,      \* tool call: request.params.name
    args      |-> NoArgs,    \*            request.params.arguments
    remote    |-> << >>,     \*            the responses the remote API gives
    raw       |-> None,      \*            the kind of the error handleToolCall threw
    message   |-> << >>,     \*            the message of the error the caller gets
    value     |-> NoValue ]  \*            the result handleToolCall returned

Engine(kind, token) ==
  [ kind      |-> kind,
    config    |-> [baseUrl |-> BaseUrl, token |-> token],
    sessionId |-> None,      \* transport.sessionId / the legacy handler's sessionId
    closed    |-> FALSE,     \* the transport closed / the legacy response emitted 'close'
    failed    |-> FALSE,     \* server.connect(transport) threw
    onclose   |-> FALSE,     \* the cleanup callback is installed
    cleaned   |-> FALSE,     \* the cleanup callback has run
    served    |-> FALSE ]    \* a request body was handed to the transport

\* A suspended handler: its route, the await it is at and its transport.
Handler(kind, pc, t) == [kind |-> kind, pc |-> pc, t |-> t]

Served(e) == [e EXCEPT !.served = TRUE]

NoPlan == [tool |-> None, args |-> NoArgs, remote |-> << >>]

InitPlanned(n, plans) ==
  /\ limit = n
  /\ plan \in plans
  /\ engines = << >>
  /\ streamableTransports = << >>
  /\ sseTransports = << >>
  /\ pending = {}
  /\ stdio = "boot"
  /\ regBy = [i \in Ids |-> 0]
  /\ last = Ev("init")

InitWith(n) == InitPlanned(n, {NoPlan})

Init == InitWith(MaxEngines)

InitGate == InitWith(GateEngines)

InitStreaming == InitWith(StreamingEngines)

InitLegacy == InitWith(LegacyEngines)

InitLegacyWide == InitWith(WideEngines)


\* ------------------------------------------------- streaming style: POST /sse
\* if (sessionId && streamableTransports.has(sessionId))
IsReuse(tbl, sid) == sid # None /\ MapHas(tbl, sid)

ReuseTransport_MostRecent(tbl, sid) == tbl[Len(tbl)].value.transport

\* const { transport } = streamableTransports.get(sessionId)!
ReuseTransport(tbl, sid) == MapGet(tbl, sid).transport

ShouldStore_NoHasCheck(tbl, newSessionId) == newSessionId # None

ShouldStore_Never(tbl, newSessionId) == FALSE

\* if (newSessionId && !streamableTransports.has(newSessionId))
ShouldStore(tbl, newSessionId) == newSessionId # None /\ ~MapHas(tbl, newSessionId)

OnClose_Keep(tbl, newSessionId) == tbl

\* transport.onclose = () => streamableTransports.delete(newSessionId)
OnClose(tbl, newSessionId) == MapDelete(tbl, newSessionId)

CatchStatus_Always500(headersSent) == 500

\* if (!res.headersSent) res.status(500).json({ error: 'Failed to handle request' })
CatchStatus(headersSent) == IF headersSent THEN 0 ELSE 500

PostSse_TokenMatch(tok, sid, ok, headersSent) ==
  /\ UNCHANGED <<sseTransports, stdio, regBy, limit, plan>>
  /\ IF \/ ~TokenOk(tok)
        \/ /\ IsReuse(streamableTransports, sid)
           /\ MapGet(streamableTransports, sid).token # tok.v
       THEN /\ last' = [Ev("POST /sse") EXCEPT !.tok = tok, !.sid = sid,
                                               !.status = 401, !.error = AuthError]
            /\ UNCHANGED <<engines, streamableTransports, pending>>
       ELSE IF IsReuse(streamableTransports, sid)
         THEN LET t == ReuseTransport(streamableTransports, sid) IN
              /\ engines' = [engines EXCEPT ![t] = Served(@)]
              /\ last' = [Ev("POST /sse") EXCEPT !.tok = tok, !.sid = sid, !.to = t,
                            !.prev = IF last.ep = "POST /sse" /\ last.sid = sid
                                       THEN last.to ELSE 0,
                            !.threw = ~ok,
                            !.headersSent = ~ok /\ headersSent,
                            !.status = IF ok THEN 0 ELSE CatchStatus(headersSent),
                            !.error = IF ok \/ headersSent THEN None
                                      ELSE "Failed to handle request"]
              /\ UNCHANGED <<streamableTransports, pending>>
         ELSE LET t == Len(engines) + 1 IN
              /\ Len(engines) < limit
              /\ engines' = Append(engines, Engine("streamable", tok.v))
              /\ pending' = pending \cup {Handler("new", "connect", t)}
              /\ last' = [Ev("POST /sse") EXCEPT !.tok = tok, !.sid = sid, !.created = t]
              /\ UNCHANGED streamableTransports

\* app.post('/sse').  The reuse path is taken whole: its continuation after
\* `await transport.handleRequest` touches only the response, so nothing can
\* interleave with it observably (ok: handleRequest returned; headersSent:
\* res.headersSent in the catch).  The new-session path is cut at its first
\* await.
PostSse(tok, sid, ok, headersSent) ==
  /\ UNCHANGED <<sseTransports, stdio, regBy, limit, plan>>
  /\ IF ~TokenOk(tok)
       THEN /\ last' = [Ev("POST /sse") EXCEPT !.tok = tok, !.sid = sid,
                                               !.status = 401, !.error = AuthError]
            /\ UNCHANGED <<engines, streamableTransports, pending>>
       ELSE IF IsReuse(streamableTransports, sid)
         THEN LET t == ReuseTransport(streamableTransports, sid) IN
              /\ engines' = [engines EXCEPT ![t] = Served(@)]
              /\ last' = [Ev("POST /sse") EXCEPT !.tok = tok, !.sid = sid, !.to = t,
                            !.prev = IF last.ep = "POST /sse" /\ last.sid = sid
                                       THEN last.to ELSE 0,
                            !.threw = ~ok,
                            !.headersSent = ~ok /\ headersSent,
                            !.status = IF ok THEN 0 ELSE CatchStatus(headersSent),
                            !.error = IF ok \/ headersSent THEN None
                                      ELSE "Failed to handle request"]
              /\ UNCHANGED <<streamableTransports, pending>>
         ELSE LET t == Len(engines) + 1 IN
              /\ Len(engines) < limit
              /\ engines' = Append(engines, Engine("streamable", tok.v))
              /\ pending' = pending \cup {Handler("new", "connect", t)}
              /\ last' = [Ev("POST /sse") EXCEPT !.tok = tok, !.sid = sid, !.created = t]
              /\ UNCHANGED streamableTransports

\* await server.connect(transport) returns or throws.  It is outside the try:
\* a throw ends the handler with no response.  On return the first
\* transport.handleRequest starts; the transport may assign its sessionId.
Connected(h, ok, newId) ==
  /\ h \in pending /\ h.kind = "new" /\ h.pc = "connect"
  /\ UNCHANGED <<streamableTransports, sseTransports, stdio, regBy, limit, plan>>
  /\ IF ok
       THEN /\ engines' = [engines EXCEPT ![h.t] = Served([@ EXCEPT !.sessionId = newId])]
            /\ pending' = (pending \ {h}) \cup {[h EXCEPT !.pc = "handle"]}
            /\ last' = [Ev("connected") EXCEPT !.to = h.t, !.sid = newId]
       ELSE /\ pending' = pending \ {h}
            /\ engines' = [engines EXCEPT ![h.t].failed = TRUE]
            /\ last' = [Ev("connected") EXCEPT !.engine = h.t, !.threw = TRUE,
                                                !.unhandled = TRUE]

\* await transport.handleRequest(...) of the new-session path returns or
\* throws.
Handled(h, ok, headersSent) ==
  /\ h \in pending /\ h.kind = "new" /\ h.pc = "handle"
  /\ pending' = pending \ {h}
  /\ UNCHANGED <<sseTransports, stdio, limit, plan>>
  /\ IF ~ok
       THEN /\ last' = [Ev("handled") EXCEPT !.engine = h.t, !.threw = TRUE,
                          !.headersSent = headersSent,
                          !.status = CatchStatus(headersSent),
                          !.error = IF headersSent THEN None ELSE "Failed to handle request"]
            /\ UNCHANGED <<engines, streamableTransports, regBy>>
       ELSE LET newSessionId == engines[h.t].sessionId IN
            /\ last' = [Ev("handled") EXCEPT !.sid = newSessionId, !.engine = h.t]
            /\ IF ShouldStore(streamableTransports, newSessionId)
                 THEN /\ streamableTransports' =
                           MapSet(streamableTransports, newSessionId,
                                  [transport |-> h.t, token |-> engines[h.t].config.token])
                      /\ engines' = [engines EXCEPT ![h.t].onclose = TRUE]
                      /\ regBy' = [regBy EXCEPT ![newSessionId] = h.t]
                 ELSE UNCHANGED <<engines, streamableTransports, regBy>>

\* ------------------------------------- legacy style: GET /sse, POST /message
SseDeregister_Keep(tbl, sessionId) == tbl

\* sseTransports.delete(sessionId), in res.on('close') and in the connect catch
SseDeregister(tbl, sessionId) == MapDelete(tbl, sessionId)

\* app.get('/sse'), up to its await.  sessionId is
\* `${Date.now()}-${Math.random().toString(36).substring(7)}`.
GetSse(tok, sessionId) ==
  /\ UNCHANGED <<streamableTransports, stdio, regBy, limit, plan>>
  /\ IF ~TokenOk(tok)
       THEN /\ last' = [Ev("GET /sse") EXCEPT !.tok = tok, !.status = 401,
                                              !.error = AuthError]
            /\ UNCHANGED <<engines, sseTransports, pending>>
       ELSE LET t == Len(engines) + 1 IN
            /\ Len(engines) < limit
            /\ sseTransports' = MapSet(sseTransports, sessionId, t)
            /\ engines' = Append(engines,
                 [Engine("sse", tok.v) EXCEPT !.sessionId = sessionId, !.onclose = TRUE])
            /\ pending' = pending \cup {Handler("sse", "connect", t)}
            /\ last' = [Ev("GET /sse") EXCEPT !.tok = tok, !.sid = sessionId,
                                              !.created = t]

\* await server.connect(transport) of the legacy handler returns or throws.
SseConnected(h, ok) ==
  /\ h \in pending /\ h.kind = "sse" /\ h.pc = "connect"
  /\ pending' = pending \ {h}
  /\ UNCHANGED <<streamableTransports, stdio, regBy, limit, plan>>
  /\ IF ok
       THEN /\ last' = [Ev("sse connected") EXCEPT !.engine = h.t]
            /\ UNCHANGED <<engines, sseTransports>>
       ELSE /\ sseTransports' = SseDeregister(sseTransports, engines[h.t].sessionId)
            /\ engines' = [engines EXCEPT ![h.t].failed = TRUE]
            /\ last' = [Ev("sse connect failed") EXCEPT !.engine = h.t, !.threw = TRUE,
                                                        !.sid = engines[h.t].sessionId]

MessageTarget_Oldest(sse, streamable) ==
  IF Len(sse) = 0 THEN 0 ELSE sse[1].value

MessageTarget_FallBackToStreamable(sse, streamable) ==
  IF Len(sse) = 0
    THEN IF Len(streamable) = 0 THEN 0 ELSE streamable[Len(streamable)].value.transport
    ELSE sse[Len(sse)].value

\* const transportEntries = Array.from(sseTransports.entries())
\* if (transportEntries.length === 0) return 400
\* const [_sessionId, transport] = transportEntries[transportEntries.length - 1]
\* (0: no transport, the request is rejected)
MessageTarget(sse, streamable) ==
  IF Len(sse) = 0 THEN 0 ELSE sse[Len(sse)].value

\* app.post('/message'), taken whole (its continuation touches only the
\* response).  No token is read.  The catch calls res.status(500).json(...)
\* without looking at res.headersSent: on a response already sent that call
\* throws out of the handler.
PostMessage(tok, ok, headersSent) ==
  /\ UNCHANGED <<streamableTransports, sseTransports, pending, stdio, regBy, limit, plan>>
  /\ LET t == MessageTarget(sseTransports, streamableTransports) IN
     IF t = 0
       THEN /\ last' = [Ev("POST /message") EXCEPT !.tok = tok, !.status = 400,
                                                   !.error = "No active SSE connection"]
            /\ UNCHANGED engines
       ELSE /\ engines' = [engines EXCEPT ![t] = Served(@)]
            /\ last' = [Ev("POST /message") EXCEPT !.tok = tok, !.to = t, !.threw = ~ok,
                          !.headersSent = ~ok /\ headersSent,
                          !.status = IF ok \/ headersSent THEN 0 ELSE 500,
                          !.error = IF ok \/ headersSent THEN None
                                    ELSE "Failed to handle message",
                          !.unhandled = ~ok /\ headersSent]

\* ----------------------------------------------------- connection close
Close_BothTables(t) ==
  /\ t \in 1..Len(engines)
  /\ ~engines[t].closed
  /\ engines[t].kind \in {"streamable", "sse"}
  /\ engines' = [engines EXCEPT ![t].closed = TRUE, ![t].cleaned = engines[t].onclose]
  /\ last' = [Ev("close") EXCEPT !.engine = t, !.sid = engines[t].sessionId]
  /\ UNCHANGED <<pending, stdio, limit, plan>>
  /\ streamableTransports' = MapDelete(streamableTransports, engines[t].sessionId)
  /\ sseTransports' = MapDelete(sseTransports, engines[t].sessionId)
  /\ regBy' = regBy

Close_CancelsToolCalls(t) ==
  /\ t \in 1..Len(engines)
  /\ ~engines[t].closed
  /\ engines[t].kind \in {"streamable", "sse"}
  /\ engines' = [engines EXCEPT ![t].closed = TRUE, ![t].cleaned = engines[t].onclose]
  /\ last' = [Ev("close") EXCEPT !.engine = t, !.sid = engines[t].sessionId]
  /\ pending' = { h \in pending : ~(h.kind = "tool" /\ h.t = t) }
  /\ UNCHANGED <<stdio, limit, plan>>
  /\ IF engines[t].kind = "streamable"
       THEN /\ IF engines[t].onclose
                 THEN /\ streamableTransports' =
                           MapDelete(streamableTransports, engines[t].sessionId)
                      /\ regBy' = [regBy EXCEPT ![engines[t].sessionId] = 0]
                 ELSE UNCHANGED <<streamableTransports, regBy>>
            /\ UNCHANGED sseTransports
       ELSE /\ sseTransports' = MapDelete(sseTransports, engines[t].sessionId)
            /\ UNCHANGED <<streamableTransports, regBy>>

\* The transport of a streaming session closes (transport.onclose, when
\* installed), or the response of a legacy stream emits 'close'.
Close(t) ==
  /\ t \in 1..Len(engines)
  /\ ~engines[t].closed
  /\ engines[t].kind \in {"streamable", "sse"}
  /\ engines' = [engines EXCEPT ![t].closed = TRUE, ![t].cleaned = engines[t].onclose]
  /\ last' = [Ev("close") EXCEPT !.engine = t, !.sid = engines[t].sessionId]
  /\ UNCHANGED <<pending, stdio, limit, plan>>
  /\ IF engines[t].kind = "streamable"
       THEN /\ IF engines[t].onclose
                 THEN /\ streamableTransports' =
                           OnClose(streamableTransports, engines[t].sessionId)
                      /\ regBy' = [regBy EXCEPT ![engines[t].sessionId] = 0]
                 ELSE UNCHANGED <<streamableTransports, regBy>>
            /\ UNCHANGED sseTransports
       ELSE /\ sseTransports' = SseDeregister(sseTransports, engines[t].sessionId)
            /\ UNCHANGED <<streamableTransports, regBy>>

\* ------------------------------------------------------------ stdio entry
StdioStart_NoTokenCheck(envTok) ==
  /\ stdio = "boot"
  /\ UNCHANGED <<streamableTransports, sseTransports, pending, regBy, limit, plan>>
  /\ Len(engines) < limit
  /\ stdio' = "connecting"
  /\ engines' = Append(engines, Engine("stdio", envTok.v))
  /\ last' = [Ev("stdio") EXCEPT !.tok = envTok, !.created = Len(engines) + 1]

\* index.ts: if (!token) { console.error(...); process.exit(1) }, then main().
StdioStart(envTok) ==
  /\ stdio = "boot"
  /\ UNCHANGED <<streamableTransports, sseTransports, pending, regBy, limit, plan>>
  /\ IF ~envTok.present \/ envTok.v = << >>
       THEN /\ stdio' = "exited"
            /\ last' = [Ev("stdio") EXCEPT !.tok = envTok, !.status = 1,
                          !.error = "Error: FASTIDIOUS_TOKEN environment variable is required"]
            /\ UNCHANGED engines
       ELSE /\ Len(engines) < limit
            /\ stdio' = "connecting"
            /\ engines' = Append(engines, Engine("stdio", envTok.v))
            /\ last' = [Ev("stdio") EXCEPT !.tok = envTok, !.created = Len(engines) + 1]

\* await server.connect(transport) in main(); a throw reaches main().catch,
\* which exits with status 1.
StdioConnected(ok) ==
  /\ stdio = "connecting"
  /\ stdio' = IF ok THEN "running" ELSE "exited"
  /\ last' = [Ev("stdio connected") EXCEPT !.status = IF ok THEN 0 ELSE 1]
  /\ UNCHANGED <<engines, streamableTransports, sseTransports, pending, regBy, limit, plan>>

\* ------------------------------------------------------------- tool calls
\* An engine can be asked for a tool once a request body reached its
\* transport (HTTP styles) or once it reads standard input (stdio).
CanCall(e) ==
  /\ e \in 1..Len(engines)
  /\ IF engines[e].kind = "stdio" THEN stdio = "running" ELSE engines[e].served

\* The CallTool handler createMCPServer registers: the result of
\* handleToolCall goes to the caller as text content; whatever handleToolCall
\* throws is thrown again as McpError(ErrorCode.InternalError, message).
CallToolHandler(config, name, args, remote) ==
  LET r == handleToolCall(config, name, args, remote) IN
  [ error   |-> IF r.error = None THEN None ELSE "InternalError",
    raw     |-> r.error,
    message |-> r.message,
    calls   |-> r.calls,
    value   |-> r.value ]

\* An engine handles a tools/call request, with the config captured when the
\* engine was created.
ToolCall(e, toolName, args, remote) ==
  /\ CanCall(e)
  /\ LET r == CallToolHandler(engines[e].config, toolName, args, remote) IN
     last' = [Ev("tool call") EXCEPT
                !.engine = e, !.tool = toolName, !.args = args, !.remote = remote,
                !.argToken = IF "token" \in DOMAIN args THEN args.token ELSE << >>,
                !.calls = r.calls, !.error = r.error, !.raw = r.raw,
                !.message = r.message, !.value = r.value]
  /\ UNCHANGED <<engines, streamableTransports, sseTransports, pending, stdio, regBy, limit, plan>>

\* The same handler cut at `await fetchAPI(...)`: the request is issued and the
\* handler is suspended on the promise fetch returned.  fetch is given no
\* AbortSignal and no timeout; answers tells whether the remote will ever
\* settle this request (pc "fetch") or never (pc "hung").  For the cases that
\* issue one request.
ToolCallBegin(e, toolName, args, remote, answers) ==
  /\ CanCall(e)
  /\ toolName \in ToolNames
  /\ Cardinality({h \in pending : h.kind = "tool" /\ h.t = e}) < MaxOutstanding
  /\ pending' = pending \cup {Handler("tool", IF answers THEN "fetch" ELSE "hung", e)}
  /\ last' = [Ev("tool call begun") EXCEPT
                !.engine = e, !.tool = toolName, !.args = args,
                !.calls = <<Head(CallToolHandler(engines[e].config, toolName, args,
                                                 remote).calls)>>]
  /\ UNCHANGED <<engines, streamableTransports, sseTransports, stdio, regBy, limit, plan>>

\* The remote's response arrives: the suspended handler runs to its end.
ToolCallResume(h, toolName, args, remote) ==
  /\ h \in pending /\ h.kind = "tool" /\ h.pc = "fetch"
  /\ pending' = pending \ {h}
  /\ LET r == CallToolHandler(engines[h.t].config, toolName, args, remote) IN
     last' = [Ev("tool call") EXCEPT
                !.engine = h.t, !.tool = toolName, !.args = args, !.remote = remote,
                !.calls = r.calls, !.error = r.error, !.raw = r.raw,
                !.message = r.message, !.value = r.value]
  /\ UNCHANGED <<engines, streamableTransports, sseTransports, stdio, regBy, limit, plan>>

\* ------------------------------------------------- inputs of the dispatcher
\* Items of a remote list: two notes and a collection.
Items ==
  { [id |-> "1", type |-> "text"], [id |-> "2", type |-> "collection"],
    [id |-> "3", type |-> "text"] }

BoundedSeq(S, n) == UNION { [1..k -> S] : k \in 0..n }

\* A remote response: response.ok, response.statusText, response.json().
Response(ok, statusText, body) == [ok |-> ok, statusText |-> statusText, body |-> body]

ItemBody == [id |-> "1", type |-> "text"]

\* A body with no `pastes`.
OtherBody == [error |-> "unexpected"]

OkItem == Response(TRUE, "OK", ItemBody)

Responses ==
  { Response(TRUE, "OK", [pastes |-> l]) : l \in BoundedSeq(Items, MaxPastes) }
    \cup { OkItem, Response(TRUE, "OK", OtherBody) }
    \cup { Response(FALSE, st, OtherBody) : st \in {"Not Found", "Internal Server Error"} }

\* Responses to the second request of get_collection.
ChildResponses ==
  { Response(TRUE, "OK", [pastes |-> <<[id |-> "1", type |-> "text"],
                                       [id |-> "2", type |-> "collection"]>>]),
    Response(TRUE, "OK", OtherBody),
    Response(FALSE, "Not Found", OtherBody) }

RemoteInputs == { <<r1, r2>> : r1 \in Responses, r2 \in ChildResponses }

\* Arguments: any subset of id, parentId, includeChildren and query supplied.
ArgNames == {"id", "parentId", "includeChildren", "query"}

FullArgs ==
  [ id : {"n1"}, parentId : {"", "p1"}, includeChildren : {"true", "false"}, query : {"q"} ]

ArgInputs == { [k \in S |-> f[k]] : f \in FullArgs, S \in SUBSET ArgNames }

AllToolInputs == ToolNames \cup {"no_such_tool"}

\* What the callers of the sessions of Spec send: an id and a token, and the
\* remote API answers with the item.
SessionArgInputs == { [id |-> "n1", token |-> t] : t \in ArgTokenInputs }

SessionRemoteInputs == { <<OkItem>> }

\* -------------------------------------------------------------------- next
EngineIds == 1..WideEngines

\* How an awaited transport call of a handler taken whole ends: it returns, it
\* throws before the response is sent, it throws after.
Outcomes ==
  { [ok |-> TRUE, headersSent |-> TRUE], [ok |-> FALSE, headersSent |-> FALSE],
    [ok |-> FALSE, headersSent |-> TRUE] }

Returns == { [ok |-> TRUE, headersSent |-> TRUE] }

\* Every route of the HTTP server, the stdio entry and the engines' tool
\* calls; the transports' handleRequest and handlePostMessage return.
Next ==
  \/ \E tok \in SomeTokenInputs, sid \in SidInputs, o \in Returns :
       PostSse(tok, sid, o.ok, o.headersSent)
  \/ \E h \in pending, ok \in BOOLEAN, newId \in Ids \cup {None} : Connected(h, ok, newId)
  \/ \E h \in pending, o \in Returns : Handled(h, o.ok, o.headersSent)
  \/ \E tok \in SomeTokenInputs, sessionId \in Ids : GetSse(tok, sessionId)
  \/ \E h \in pending, ok \in BOOLEAN : SseConnected(h, ok)
  \/ \E tok \in MessageTokenInputs, o \in Returns : PostMessage(tok, o.ok, o.headersSent)
  \/ \E t \in EngineIds : Close(t)
  \/ \E envTok \in EnvInputs : StdioStart(envTok)
  \/ \E ok \in BOOLEAN : StdioConnected(ok)
  \/ \E e \in EngineIds, toolName \in ToolInputs, args \in SessionArgInputs,
          remote \in SessionRemoteInputs :
       ToolCall(e, toolName, args, remote)

Spec == Init /\ [][Next]_vars

\* Every route of the HTTP server, with every kind of token.
NextGate ==
  \/ \E tok \in TokenInputs, sid \in SidInputs, o \in Returns :
       PostSse(tok, sid, o.ok, o.headersSent)
  \/ \E h \in pending, ok \in BOOLEAN, newId \in Ids \cup {None} : Connected(h, ok, newId)
  \/ \E h \in pending, o \in Returns : Handled(h, o.ok, o.headersSent)
  \/ \E tok \in TokenInputs, sessionId \in Ids : GetSse(tok, sessionId)
  \/ \E h \in pending, ok \in BOOLEAN : SseConnected(h, ok)
  \/ \E tok \in MessageTokenInputs, o \in Returns : PostMessage(tok, o.ok, o.headersSent)
  \/ \E t \in EngineIds : Close(t)

SpecGate == InitGate /\ [][NextGate]_vars

\* The streaming style alone, with tokens that pass the gate and transport
\* calls that return or throw.
NextStreaming ==
  \/ \E tok \in ValidTokenInputs, sid \in SidInputs, o \in Outcomes :
       PostSse(tok, sid, o.ok, o.headersSent)
  \/ \E h \in pending, ok \in BOOLEAN, newId \in Ids \cup {None} : Connected(h, ok, newId)
  \/ \E h \in pending, o \in Outcomes : Handled(h, o.ok, o.headersSent)
  \/ \E t \in EngineIds : Close(t)

SpecStreaming == InitStreaming /\ [][NextStreaming]_vars

\* The legacy style alone, likewise.
NextLegacy ==
  \/ \E tok \in ValidTokenInputs, sessionId \in Ids : GetSse(tok, sessionId)
  \/ \E h \in pending, ok \in BOOLEAN : SseConnected(h, ok)
  \/ \E tok \in MessageTokenInputs, o \in Outcomes : PostMessage(tok, o.ok, o.headersSent)
  \/ \E t \in EngineIds : Close(t)

SpecLegacy == InitLegacy /\ [][NextLegacy]_vars

SpecLegacyWide == InitLegacyWide /\ [][NextLegacy]_vars

\* The cases that send a body, the arguments their bodies are built from
\* (`type` is an argument no tool declares) and two answers of the remote.
BodyTools ==
  {"create_note", "update_note", "create_collection", "update_collection", "move_note"}

BodyArgNames ==
  { "id", "title", "content", "targetParentId", "displayFields", "viewMode", "sortField",
    "sortDirection", "type" }

BodyFullArgs ==
  [ id : {"n1"}, title : {"T"}, content : {"C"}, targetParentId : {"", "p1", Null},
    displayFields : {"[title]", Null}, viewMode : {"list"}, sortField : {"title"},
    sortDirection : {"asc"}, type : {"collection"} ]

BodyArgInputs == { [k \in S |-> f[k]] : f \in BodyFullArgs, S \in SUBSET BodyArgNames }

BodyRemoteInputs ==
  { <<OkItem, OkItem>>, <<Response(FALSE, "Not Found", OtherBody), OkItem>> }

Plans ==
  { [tool |-> toolName, args |-> args, remote |-> remote] :
      toolName \in AllToolInputs, args \in ArgInputs, remote \in RemoteInputs }
    \cup
  { [tool |-> toolName, args |-> args, remote |-> remote] :
      toolName \in BodyTools, args \in BodyArgInputs, remote \in BodyRemoteInputs }

\* The dispatcher alone, behind the stdio entry: every tool name, every
\* combination of arguments, every remote response.
InitTools == InitPlanned(ToolEngines, Plans)

NextTools ==
  \/ \E envTok \in EnvInputs : StdioStart(envTok)
  \/ \E ok \in BOOLEAN : StdioConnected(ok)
  \/ \E e \in EngineIds : ToolCall(e, plan.tool, plan.args, plan.remote)

SpecTools == InitTools /\ [][NextTools]_vars

\* Both HTTP styles with tool calls cut at their await: sessions are opened
\* and closed while tool calls wait for the remote.  Every tool call is
\* get_note for one id; the remote answers it with the item or with a failure,
\* or never answers.
SuspendPlans ==
  { [tool |-> "get_note", args |-> [id |-> "n1"], remote |-> remote] :
      remote \in { <<OkItem>>, <<Response(FALSE, "Not Found", OtherBody)>> } }

SuspendTokenInputs == {Tok(TokenA)}

InitSuspend == InitPlanned(SuspendEngines, SuspendPlans)

NextSuspend ==
  \/ \E tok \in SuspendTokenInputs, sid \in SidInputs, o \in Returns :
       PostSse(tok, sid, o.ok, o.headersSent)
  \/ \E h \in pending, ok \in BOOLEAN, newId \in Ids \cup {None} : Connected(h, ok, newId)
  \/ \E h \in pending, o \in Returns : Handled(h, o.ok, o.headersSent)
  \/ \E tok \in SuspendTokenInputs, sessionId \in Ids : GetSse(tok, sessionId)
  \/ \E h \in pending, ok \in BOOLEAN : SseConnected(h, ok)
  \/ \E t \in EngineIds : Close(t)
  \/ \E e \in EngineIds, answers \in BOOLEAN :
       ToolCallBegin(e, plan.tool, plan.args, plan.remote, answers)
  \/ \E h \in pending : ToolCallResume(h, plan.tool, plan.args, plan.remote)

\* Every await but that of a request the remote never answers settles:
\* server.connect and transport.handleRequest are local to the process, and a
\* request the remote answers gets its response.
FairSuspend ==
  \A t \in EngineIds :
    /\ WF_vars(\E ok \in BOOLEAN, newId \in Ids \cup {None} :
                 Connected(Handler("new", "connect", t), ok, newId))
    /\ WF_vars(\E o \in Returns : Handled(Handler("new", "handle", t), o.ok, o.headersSent))
    /\ WF_vars(\E ok \in BOOLEAN : SseConnected(Handler("sse", "connect", t), ok))
    /\ WF_vars(ToolCallResume(Handler("tool", "fetch", t), plan.tool, plan.args, plan.remote))

SpecSuspend == InitSuspend /\ [][NextSuspend]_vars /\ FairSuspend

\* ================================================================== claims
EngineSet == 1..Len(engines)

\* The legacy table's transports and the streaming table's transports.
SseValues == { sseTransports[i].value : i \in 1..Len(sseTransports) }

StreamableValues ==
  { streamableTransports[i].value.transport : i \in 1..Len(streamableTransports) }

\* A token that is absent, empty, or does not start with 'fst_'.
BadToken(tok) == ~tok.present \/ tok.v = << >> \/ ~StartsWith(tok.v, Prefix)

\* C1: a POST /sse or GET /sse request whose token is absent, empty or does
\* not start with 'fst_' is answered 401 with the fixed error body, and the
\* step constructs no engine, changes neither table, hands the request to no
\* transport, suspends no handler and issues no remote call, whatever
\* mcp-session-id it carries.
C1_TokenGate ==
  [][ (last'.ep \in {"POST /sse", "GET /sse"} /\ BadToken(last'.tok))
        => /\ last'.status = 401
           /\ last'.error = "Valid token required as query parameter"
           /\ last'.created = 0 /\ last'.to = 0 /\ last'.calls = << >>
           /\ UNCHANGED <<engines, streamableTransports, sseTransports, pending>> ]_vars

\* C1 witness: a POST /sse with a non-empty token that lacks the prefix,
\* carrying the id of a registered streaming session, was answered 401.
C1_Witness ==
  /\ last.ep = "POST /sse" /\ last.status = 401
  /\ last.tok.present /\ last.tok.v # << >>
  /\ last.sid # None /\ MapHas(streamableTransports, last.sid)

\* C2: a POST /sse with a valid token and a registered mcp-session-id is
\* handed to the transport stored under that id at registration; the step
\* constructs no engine and leaves the table as it was; when the step before
\* it was such a request for the same id, both went to the same transport.
C2_ReuseSameEngine ==
  [][ (last'.ep = "POST /sse" /\ last'.to # 0)
        => /\ last'.to = regBy[last'.sid]
           /\ last'.created = 0
           /\ Len(engines') = Len(engines)
           /\ streamableTransports' = streamableTransports
           /\ (last'.prev # 0 => last'.prev = last'.to) ]_vars

\* C2 witness: with two sessions registered, two requests in a row for the
\* session registered first.
C2_Witness ==
  /\ last.ep = "POST /sse" /\ last.prev # 0
  /\ Len(streamableTransports) = 2
  /\ streamableTransports[1].key = last.sid

C4_OneEnginePerSession ==
  [][ /\ \A i, j \in 1..Len(streamableTransports') :
           i # j => streamableTransports'[i].key # streamableTransports'[j].key
      /\ \A k \in MapKeys(streamableTransports) \cap MapKeys(streamableTransports') :
           MapGet(streamableTransports', k) = MapGet(streamableTransports, k) ]_vars

\* C4 witness: a second transport was assigned an identifier that is already
\* registered; its handler finished and the entry still names the first.
C4_Witness ==
  /\ last.ep = "handled" /\ ~last.threw /\ last.sid # None
  /\ MapHas(streamableTransports, last.sid)
  /\ MapGet(streamableTransports, last.sid).transport # last.engine

\* C5: an engine is created with the token of the request (or environment)
\* that created it, no step changes the config of an existing engine, and
\* every remote request an engine issues carries 'Authorization: Bearer '
\* followed by that token, whatever `token` the tool arguments carry and
\* whatever other sessions exist.
C5_SessionToken ==
  [][ /\ \A e \in EngineSet : engines'[e].config = engines[e].config
      /\ (last'.created # 0 /\ vars' # vars)
           => engines'[last'.created].config.token = last'.tok.v
      /\ last'.ep = "tool call"
           => \A i \in 1..Len(last'.calls) :
                last'.calls[i].headers.Authorization
                  = BearerWord \o engines[last'.engine].config.token ]_vars

\* C5 witness: an engine issued a remote request while an engine of another
\* style holds another token, and the tool arguments carried that other
\* token.
C5_Witness ==
  /\ last.ep = "tool call" /\ last.calls # << >>
  /\ last.argToken # engines[last.engine].config.token
  /\ \E e \in EngineSet :
       /\ engines[e].kind # engines[last.engine].kind
       /\ engines[e].config.token = last.argToken
       /\ engines[e].served

\* C6: when the transport of a registered streaming session closes, its
\* identifier leaves the streaming table; no entry of the table names a
\* transport whose cleanup has run, and no POST /sse is handed to one.
C6_ClosedSessionGone ==
  [][ /\ (last'.ep = "close" /\ vars' # vars
            /\ engines[last'.engine].kind = "streamable"
            /\ engines[last'.engine].sessionId # None
            /\ MapHas(streamableTransports, engines[last'.engine].sessionId)
            /\ MapGet(streamableTransports, engines[last'.engine].sessionId).transport
                 = last'.engine)
           => ~MapHas(streamableTransports', engines[last'.engine].sessionId)
      /\ \A t \in StreamableValues' : ~engines'[t].cleaned
      /\ (last'.ep = "POST /sse" /\ last'.to # 0) => ~engines'[last'.to].cleaned ]_vars

\* C6 witness: a POST /sse carrying the identifier of a session that was
\* registered and then closed got a new engine.
C6_Witness ==
  /\ last.ep = "POST /sse" /\ last.created # 0 /\ last.sid # None
  /\ \E t \in EngineSet :
       engines[t].cleaned /\ engines[t].sessionId = last.sid

\* C7 as stated: no POST /sse carrying an identifier that a live transport
\* was already assigned gets a second engine constructed.
C7_NoSecondEngine ==
  ~ /\ last.ep = "POST /sse" /\ last.created # 0 /\ last.sid # None
    /\ \E t \in EngineSet :
         /\ t # last.created
         /\ engines[t].sessionId = last.sid
         /\ ~engines[t].closed /\ ~engines[t].failed

Max(S) == CHOOSE x \in S : \A y \in S : y <= x

\* C8 as stated: a POST /message is handed to the most recently registered
\* legacy session that is still in the legacy table (transports are numbered
\* in the order their sessions were registered).
C8_MostRecentSession ==
  (last.ep = "POST /message" /\ Len(sseTransports) > 0)
    => last.to = Max(SseValues)

\* C9: a POST /message received while the legacy table is empty is answered
\* 400, is handed to no transport, marks no engine as served, issues no remote
\* call and changes nothing else, streaming sessions or not.
C9_NoLegacySession ==
  [][ (last'.ep = "POST /message" /\ Len(sseTransports) = 0)
        => /\ last'.status = 400
           /\ last'.to = 0 /\ last'.calls = << >>
           /\ UNCHANGED <<engines, streamableTransports, sseTransports, pending>> ]_vars

\* C9 witness: the message was rejected while a streaming session was
\* registered.
C9_Witness ==
  /\ last.ep = "POST /message" /\ last.status = 400
  /\ Len(streamableTransports) > 0

\* C10: no entry of the legacy table names the transport of a stream that has
\* closed or whose engine failed to connect, and no POST /message is handed
\* to one.
C10_ClosedStreamGone ==
  /\ \A t \in SseValues : ~engines[t].closed /\ ~engines[t].failed
  /\ (last.ep = "POST /message" /\ last.to # 0)
       => ~engines[last.to].closed /\ ~engines[last.to].failed

\* C10 witness: the newest stream has closed and an older one failed to
\* connect or closed as well, or a message went to the older stream after the
\* newer one closed.
C10_Witness ==
  /\ last.ep = "POST /message" /\ last.to # 0
  /\ \E t \in EngineSet : t > last.to /\ (engines[t].closed \/ engines[t].failed)

\* The legacy streams that are open: constructed, connected or connecting,
\* and not closed.
OpenSse == { t \in EngineSet : /\ engines[t].kind = "sse"
                               /\ ~engines[t].closed /\ ~engines[t].failed }

\* C11 as stated: the legacy table holds exactly one record per open legacy
\* stream (every open stream is the value of exactly one entry, and there
\* are no other entries).
C11_OneRecordPerOpenStream ==
  /\ SseValues = OpenSse
  /\ Len(sseTransports) = Cardinality(OpenSse)

\* C12: the two tables are independent.  A step of the legacy style (open,
\* connect, message, close of a legacy stream) leaves the streaming table as
\* it was, a step of the streaming style (POST /sse, connect, first request,
\* close of a streaming transport) leaves the legacy table as it was, a POST
\* /message is handed to legacy transports only, and a POST /sse is handed to
\* streaming transports only, and to none when its mcp-session-id is a key
\* of the legacy table alone.
C12_IndependentTables ==
  [][ /\ (\/ last'.ep \in {"GET /sse", "sse connected", "sse connect failed", "POST /message"}
          \/ last'.ep = "close" /\ engines[last'.engine].kind = "sse")
           => streamableTransports' = streamableTransports
      /\ (\/ last'.ep \in {"POST /sse", "connected", "handled"}
          \/ last'.ep = "close" /\ engines[last'.engine].kind = "streamable")
           => sseTransports' = sseTransports
      /\ (last'.ep = "POST /message" /\ last'.to # 0)
           => engines[last'.to].kind = "sse"
      /\ (last'.ep = "POST /sse" /\ last'.to # 0)
           => engines[last'.to].kind = "streamable"
      /\ (last'.ep = "POST /sse" /\ last'.sid \notin MapKeys(streamableTransports))
           => last'.to = 0 ]_vars

\* C12 witness: a POST /sse carrying the identifier of a registered legacy
\* session, whose stream is connected, got a new engine.
C12_Witness ==
  /\ last.ep = "POST /sse" /\ last.created # 0
  /\ last.sid # None /\ MapHas(sseTransports, last.sid)
  /\ pending = {Handler("new", "connect", last.created)}

\* C16: when transport.handleRequest throws on either POST /sse path, the
\* handler answers 500 with the generic body if the response headers were not
\* sent, writes nothing if they were, and no error leaves the handler.
C16_PostSseCatch ==
  ((last.ep = "POST /sse" /\ last.to # 0 /\ last.threw) \/ (last.ep = "handled" /\ last.threw))
    => /\ ~last.headersSent
            => last.status = 500 /\ last.error = "Failed to handle request"
       /\ last.headersSent => last.status = 0 /\ last.error = None
       /\ ~last.unhandled

\* C16 witness: the first handleRequest of a new session threw after the
\* headers were sent, while another session is registered.
C16_Witness ==
  /\ last.ep = "handled" /\ last.threw /\ last.headersSent /\ last.status = 0
  /\ Len(streamableTransports) > 0

\* C17 as stated: when transport.handlePostMessage throws after the response
\* was sent, the POST /message handler writes nothing and raises no error of
\* its own.
C17_NoSecondaryError ==
  (last.ep = "POST /message" /\ last.to # 0 /\ last.threw /\ last.headersSent)
    => last.status = 0 /\ ~last.unhandled

\* C18 as stated: a server.connect that throws while a session is set up, in
\* either style, is caught by the handler (no error leaves the handler), and
\* the failed session has no entry in either table.
C18_BootstrapFailureCaught ==
  (last.ep \in {"connected", "sse connect failed"} /\ last.threw)
    => /\ ~last.unhandled
       /\ last.engine \notin SseValues \cup StreamableValues

\* C13: handleToolCall called with a name that is not in the catalog throws
\* the method-not-found error and issues no remote request, whatever the
\* arguments (and whatever the remote would answer).
C13_UnknownToolMethodNotFound ==
  (last.ep = "tool call" /\ last.tool \notin TOOLS)
    => last.raw = "MethodNotFound" /\ last.calls = << >>

\* C13 witness: an unknown tool was called with an id, a parentId and
\* includeChildren = true.
C13_Witness ==
  /\ last.ep = "tool call" /\ last.tool \notin TOOLS
  /\ {"id", "parentId", "includeChildren"} \subseteq DOMAIN last.args
  /\ last.args.includeChildren = "true"

\* C14 as stated: for a tool name that is not in the catalog, the error the
\* protocol caller gets from the call-tool handler has the method-not-found
\* kind.
C14_CallerSeesMethodNotFound ==
  (last.ep = "tool call" /\ last.tool \notin TOOLS) => last.error = "MethodNotFound"

\* C15: for every tool of the catalog, when the response to a request it
\* issued is non-success, the caller gets an internal error whose message
\* names the operation and holds the response's status text, and the failed
\* request is the last one issued.
C15_RemoteFailure ==
  /\ (last.ep = "tool call" /\ last.tool \in TOOLS /\ ~last.remote[1].ok)
       => /\ last.error = "InternalError"
          /\ Len(last.message) = 2
          /\ last.message[1] = ToolRoute[last.tool].label
          /\ last.message[2] = last.remote[1].statusText
          /\ Len(last.calls) = 1
  /\ (/\ last.ep = "tool call" /\ last.tool = "get_collection"
      /\ "includeChildren" \in DOMAIN last.args /\ last.args.includeChildren = "true"
      /\ last.remote[1].ok /\ ~last.remote[2].ok)
       => /\ last.error = "InternalError"
          /\ Len(last.message) = 2
          /\ last.message[1] = "Failed to get collection children"
          /\ last.message[2] = last.remote[2].statusText
          /\ Len(last.calls) = 2

\* C15 witness: move_note got 'Internal Server Error' while the response
\* that a second request would have got was a success.
C15_Witness ==
  /\ last.ep = "tool call" /\ last.tool = "move_note"
  /\ ~last.remote[1].ok /\ last.remote[1].statusText = "Internal Server Error"
  /\ last.remote[2].ok
  /\ last.error = "InternalError"

\* C19: when the remote list is well-formed, the notes that list_notes and
\* search_notes return hold no item of type 'collection', and are the
\* non-collection items of the remote list in the remote's order.
C19_NotesOnly ==
  (/\ last.ep = "tool call" /\ last.tool \in {"list_notes", "search_notes"}
   /\ last.remote[1].ok /\ "pastes" \in DOMAIN last.remote[1].body)
    => /\ last.error = None
       /\ \A i \in 1..Len(last.value.notes) : last.value.notes[i].type # "collection"
       /\ last.value.notes
            = SelectSeq(last.remote[1].body.pastes, LAMBDA p : p.type # "collection")

\* C19 witness: search_notes got a collection followed by a note and
\* returned the note.
C19_Witness ==
  /\ last.ep = "tool call" /\ last.tool = "search_notes" /\ last.error = None
  /\ last.remote[1].ok /\ "pastes" \in DOMAIN last.remote[1].body
  /\ Len(last.remote[1].body.pastes) = 2
  /\ last.remote[1].body.pastes[1].type = "collection"
  /\ Len(last.value.notes) = 1

\* C20: when the remote list is well-formed, list_collections returns the
\* items of type 'collection' of the remote list and no other; its request
\* has a parentId parameter only when the caller supplied parentId, with the
\* caller's value, and no other parameter.
C20_CollectionsOnly ==
  /\ (/\ last.ep = "tool call" /\ last.tool = "list_collections"
      /\ last.remote[1].ok /\ "pastes" \in DOMAIN last.remote[1].body)
       => /\ last.error = None
          /\ \A i \in 1..Len(last.value.collections) :
               last.value.collections[i].type = "collection"
          /\ last.value.collections
               = SelectSeq(last.remote[1].body.pastes, LAMBDA p : p.type = "collection")
  /\ (last.ep = "tool call" /\ last.tool = "list_collections")
       => /\ Len(last.calls) = 1
          /\ DOMAIN last.calls[1].path.query \subseteq {"parentId"}
          /\ "parentId" \in DOMAIN last.calls[1].path.query
               => /\ "parentId" \in DOMAIN last.args
                  /\ last.calls[1].path.query.parentId = last.args.parentId

\* C20 witness: list_collections, called with a parentId, got a note and a
\* collection and returned the collection.
C20_Witness ==
  /\ last.ep = "tool call" /\ last.tool = "list_collections" /\ last.error = None
  /\ "parentId" \in DOMAIN last.calls[1].path.query
  /\ last.remote[1].ok /\ "pastes" \in DOMAIN last.remote[1].body
  /\ Len(last.remote[1].body.pastes) = 2
  /\ Len(last.value.collections) = 1

\* C21: move_note issues exactly one request, POST /api/pastes/<id>/move, whose
\* body has the single key targetParentId: the supplied target when one is
\* given, and null (present, never left out) when the argument is omitted or
\* null.  (An empty string is falsy for `||` and is sent as null too.)  No
\* content, fields or type is in the body.
C21_MoveNote ==
  (last.ep = "tool call" /\ last.tool = "move_note")
    => LET target == IF "targetParentId" \in DOMAIN last.args
                       THEN last.args.targetParentId ELSE "undefined"
       IN
       /\ Len(last.calls) = 1
       /\ last.calls[1].method = "POST"
       /\ last.calls[1].path
            = [ segments |-> << "/api/pastes/",
                                IF "id" \in DOMAIN last.args THEN last.args.id ELSE "undefined",
                                "/move" >>,
                query |-> NoQuery ]
       /\ last.calls[1].body.present
       /\ DOMAIN last.calls[1].body.json = {"targetParentId"}
       /\ target \notin {"undefined", "null", ""}
            => last.calls[1].body.json.targetParentId = target
       /\ target \in {"undefined", "null", ""}
            => last.calls[1].body.json.targetParentId = "null"

C21_Witness ==
  /\ last.ep = "tool call" /\ last.tool = "move_note"
  /\ DOMAIN last.args = {"id"}
  /\ Len(last.calls) = 1
  /\ last.calls[1].body.json = [targetParentId |-> "null"]
  /\ last.error = None


\* C22 as stated: create_collection sends each of displayFields, viewMode,
\* sortField and sortDirection with its default when the caller did not supply
\* it and with the caller's value when the caller supplied one.
C22_AsStated ==
  (last.ep = "tool call" /\ last.tool = "create_collection")
    => LET json == last.calls[1].body.json
           Sent(k, d) == IF k \in DOMAIN last.args /\ last.args[k] \notin {"undefined", "null"}
                           THEN json[k] = last.args[k] ELSE json[k] = d
       IN
       /\ Sent("displayFields", "[title,type,createdAt]")
       /\ Sent("viewMode", "grid")
       /\ Sent("sortField", "createdAt")
       /\ Sent("sortDirection", "desc")

\* C22: create_collection issues one POST /api/pastes with type 'collection';
\* displayFields is the caller's value when one is supplied and
\* [title,type,createdAt] otherwise; viewMode, sortField and sortDirection are
\* always grid, createdAt and desc, whatever the caller supplies.
C22_CreateCollection ==
  (last.ep = "tool call" /\ last.tool = "create_collection")
    => LET json == last.calls[1].body.json IN
       /\ Len(last.calls) = 1
       /\ last.calls[1].method = "POST"
       /\ last.calls[1].path = [segments |-> <<"/api/pastes">>, query |-> NoQuery]
       /\ last.calls[1].body.present
       /\ json.type = "collection"
       /\ json.displayFields
            = IF "displayFields" \in DOMAIN last.args
                 /\ last.args.displayFields \notin {"undefined", "null", "false", ""}
                THEN last.args.displayFields ELSE "[title,type,createdAt]"
       /\ json.viewMode = "grid"
       /\ json.sortField = "createdAt"
       /\ json.sortDirection = "desc"

\* C22 witness: a collection was created with display fields and a view mode
\* of the caller's; the display fields were sent, the view mode was not.
C22_Witness ==
  /\ last.ep = "tool call" /\ last.tool = "create_collection" /\ last.error = None
  /\ {"title", "displayFields", "viewMode"} \subseteq DOMAIN last.args
  /\ last.args.displayFields = "[title]" /\ last.args.viewMode = "list"
  /\ last.calls[1].body.json.displayFields = "[title]"
  /\ last.calls[1].body.json.viewMode = "grid"

\* C23 as stated: update_note and update_collection issue one PUT to the item
\* addressed by id whose body never contains id, never contains a field the
\* caller did not supply and never contains a key outside the tool's declared
\* arguments.
C23_OnlyDeclaredFields ==
  (last.ep = "tool call" /\ last.tool \in {"update_note", "update_collection"})
    => /\ Len(last.calls) = 1
       /\ last.calls[1].method = "PUT"
       /\ last.calls[1].body.present
       /\ "id" \notin DOMAIN last.calls[1].body.json
       /\ DOMAIN last.calls[1].body.json \subseteq DOMAIN last.args
       /\ DOMAIN last.calls[1].body.json \subseteq InputSchema[last.tool].properties

\* C24: get_collection first issues a GET for the item by id.  When children
\* are not requested and the response is a success it returns {collection}
\* and issues no second request.  When children are requested it issues a
\* second GET for the items whose parentId is id and, when both responses are
\* successes (the second with an item list), returns {collection, children}.
\* When a response is non-success the invocation fails with no result, and a
\* failed first request is not followed by a second.
C24_GetCollection ==
  (last.ep = "tool call" /\ last.tool = "get_collection")
    => LET id       == IF "id" \in DOMAIN last.args THEN last.args.id ELSE "undefined"
           children == "includeChildren" \in DOMAIN last.args /\ last.args.includeChildren = "true"
           r1       == last.remote[1]
           r2       == last.remote[2]
       IN
       /\ Len(last.calls) >= 1
       /\ last.calls[1].method = "GET"
       /\ last.calls[1].path = [segments |-> <<"/api/pastes/", id>>, query |-> NoQuery]
       /\ ~r1.ok => Len(last.calls) = 1 /\ last.error # None /\ last.value = NoValue
       /\ (r1.ok /\ ~children)
            => /\ Len(last.calls) = 1 /\ last.error = None
               /\ last.value = [collection |-> r1.body]
       /\ (r1.ok /\ children)
            => /\ Len(last.calls) = 2
               /\ last.calls[2].method = "GET"
               /\ last.calls[2].path
                    = [segments |-> <<"/api/pastes">>, query |-> [parentId |-> id]]
               /\ ~r2.ok => last.error # None /\ last.value = NoValue
               /\ (r2.ok /\ "pastes" \in DOMAIN r2.body)
                    => /\ last.error = None
                       /\ last.value = [collection |-> r1.body, children |-> r2.body.pastes]

\* C24 witness: children were requested, the item was found and the request
\* for the children failed.
C24_Witness ==
  /\ last.ep = "tool call" /\ last.tool = "get_collection"
  /\ "id" \in DOMAIN last.args
  /\ "includeChildren" \in DOMAIN last.args /\ last.args.includeChildren = "true"
  /\ last.remote[1].ok /\ ~last.remote[2].ok
  /\ Len(last.calls) = 2 /\ last.error = "InternalError"

\* C25 as stated: an invocation that lacks an argument its tool declares as
\* required fails with the internal-error classification and issues no remote
\* call.
C25_ValidatesRequired ==
  ( /\ last.ep = "tool call" /\ last.tool \in TOOLS
    /\ ~(InputSchema[last.tool].required \subseteq DOMAIN last.args) )
    => last.error = "InternalError" /\ last.calls = << >>

\* C26: a tool call whose remote request is never answered blocks only
\* itself.  No step of the server takes it out of the suspended handlers (no
\* timeout, no cancellation, not even the close of its session), and while it
\* hangs on one session every handler another session has in progress (a
\* session being created, a legacy stream being opened, a tool call the remote
\* answers) runs to completion.
C26_SuspendedAlone ==
  /\ [][\A h \in pending : h.pc = "hung" => h \in pending']_vars
  /\ \A e \in 1..SuspendEngines, t \in 1..SuspendEngines :
       e # t =>
         ( ( /\ [kind |-> "tool", pc |-> "hung", t |-> e] \in pending
             /\ \E h \in pending : h.t = t /\ h.pc # "hung" )
           ~> ( /\ [kind |-> "tool", pc |-> "hung", t |-> e] \in pending
                /\ ~\E h \in pending : h.t = t /\ h.pc # "hung" ) )

\* C26 witness: the tool call of one session hangs, its session has been
\* closed meanwhile, and a tool call of another session, begun after it, has
\* just completed.
C26_Witness ==
  /\ last.ep = "tool call" /\ last.error = None /\ Len(last.calls) = 1
  /\ \E e \in 1..Len(engines) :
       /\ e # last.engine
       /\ engines[e].closed
       /\ [kind |-> "tool", pc |-> "hung", t |-> e] \in pending

\* C27: the stdio entry, when FASTIDIOUS_TOKEN is absent or empty, writes an
\* error and exits with a non-zero status, and no engine is created then or
\* later; when it is set, one engine is created, with that token and the base
\* URL, and no second one.
C27_StdioEntry ==
  [][ /\ (last'.ep = "stdio" /\ vars' # vars)
           => IF ~last'.tok.present \/ last'.tok.v = << >>
                THEN /\ last'.status # 0 /\ last'.error # None
                     /\ stdio' = "exited"
                     /\ last'.created = 0 /\ engines' = engines /\ engines = << >>
                ELSE /\ last'.status = 0
                     /\ engines' = Append(engines, engines'[last'.created])
                     /\ engines'[last'.created].kind = "stdio"
                     /\ engines'[last'.created].config
                          = [baseUrl |-> "http://localhost:3000", token |-> last'.tok.v]
      /\ stdio = "exited" => engines' = engines
      /\ Cardinality({e \in 1..Len(engines') : engines'[e].kind = "stdio"}) <= 1 ]_vars

\* C27 witness: the entry exited on an empty token and no engine exists.
C27_Witness ==
  /\ last.ep = "stdio" /\ last.tok.present /\ last.tok.v = << >>
  /\ stdio = "exited" /\ last.status = 1 /\ engines = << >>

\* C28 as stated: every entry of the streaming table refers to a transport
\* that has not closed.
C28_NoClosedTransportRegistered ==
  \A t \in StreamableValues : ~engines[t].closed

\* C29: a POST /sse whose token has the prefix and whose mcp-session-id is
\* registered is handed to the transport of that session whatever the token
\* is, equal to the session's or not; the session record and the engine's
\* config stay as they were, and the remote requests of a registered
\* session's engine carry the token of the session record.
C29_ReuseIgnoresToken ==
  [][ /\ (/\ last'.ep = "POST /sse" /\ ~BadToken(last'.tok)
          /\ last'.sid \in MapKeys(streamableTransports))
           => /\ last'.to = MapGet(streamableTransports, last'.sid).transport
              /\ last'.status # 401 /\ last'.created = 0
              /\ streamableTransports' = streamableTransports
              /\ engines'[last'.to].config = engines[last'.to].config
      /\ last'.ep = "tool call"
           => \A i \in 1..Len(streamableTransports) :
                streamableTransports[i].value.transport = last'.engine
                  => \A c \in 1..Len(last'.calls) :
                       last'.calls[c].headers.Authorization
                         = BearerWord \o streamableTransports[i].value.token ]_vars

\* C29 witness: a request with another valid token was handed to the
\* session's transport.
C29_Witness ==
  /\ last.ep = "POST /sse" /\ last.to # 0
  /\ last.tok.v # MapGet(streamableTransports, last.sid).token
  /\ engines[last.to].config.token = MapGet(streamableTransports, last.sid).token

====
